---- MODULE Spec2Model ----
(***************************************************************************)
(* Churn-model serving scaffold: module initialisation of                  *)
(* src/serving/inference.py (model load with local fallback, feature       *)
(* column load), the request handlers of src/app/main.py, and the training *)
(* driver of src/models/train.py.                                          *)
(*                                                                         *)
(* Text is modelled as sequences of one-character strings so that          *)
(* str.strip() and line iteration are computed rather than assumed.        *)
(***************************************************************************)
EXTENDS Integers, Sequences, FiniteSets, TLC

\* ---------------------------------------------------------------- bounds
MaxRequests == 2      \* request slots handled concurrently
MaxMtime    == 2      \* modification times of artifact directories: 1..MaxMtime
MaxNameLen  == 2      \* characters of a persisted column name (codec runs)
MaxCols     == 2      \* column names of a persisted schema (codec runs)

\* ---------------------------------------------------------------- paths
APP == "/app/model"
R1  == "./mlruns/0/run1/artifacts/model"
R2  == "./mlruns/0/run2/artifacts/model"
RunDirs == {R1, R2}
Dirs    == {APP} \cup RunDirs

NoFile  == <<"<no such file>">>
NoModel == "<unbound>"
NoPath  == "<unbound>"

\* ---------------------------------------------------------------- text
NL == "\n"

IsSpace(ch) == ch \in {" ", "\n", "\t", "\r"}

RECURSIVE LStrip(_)
LStrip(s) ==
    IF s = <<>> THEN <<>>
    ELSE IF IsSpace(Head(s)) THEN LStrip(Tail(s)) ELSE s

RECURSIVE RStrip(_)
RStrip(s) ==
    IF s = <<>> THEN <<>>
    ELSE IF IsSpace(s[Len(s)]) THEN RStrip(SubSeq(s, 1, Len(s) - 1)) ELSE s

Strip(s) == RStrip(LStrip(s))

\* position of the first newline of s, 0 when there is none
FirstNL(s) ==
    LET P == {k \in 1..Len(s) : s[k] = NL}
    IN  IF P = {} THEN 0 ELSE CHOOSE k \in P : \A j \in P : k <= j

\* iteration over a text file: each line keeps its terminator
RECURSIVE FileLines(_)
FileLines(c) ==
    IF c = <<>> THEN <<>>
    ELSE LET k == FirstNL(c)
         IN  IF k = 0 THEN <<c>>
             ELSE <<SubSeq(c, 1, k)>> \o FileLines(SubSeq(c, k + 1, Len(c)))

RECURSIVE StripNonBlank(_)
StripNonBlank(lines) ==
    IF lines = <<>> THEN <<>>
    ELSE LET ln == Strip(Head(lines))
         IN  IF ln # <<>> THEN <<ln>> \o StripNonBlank(Tail(lines))
             ELSE StripNonBlank(Tail(lines))

\* [ln.strip() for ln in f if ln.strip()]
ReadFeatureCols(content) == StripNonBlank(FileLines(content))

\* persist: the ordered column names, one per line; blankSep puts an empty
\* line after every name
RECURSIVE PersistCols(_, _)
PersistCols(cols, blankSep) ==
    IF cols = <<>> THEN <<>>
    ELSE Head(cols) \o <<NL>> \o (IF blankSep THEN <<NL>> ELSE <<>>)
         \o PersistCols(Tail(cols), blankSep)

\* ---------------------------------------------------------------- schema
GENDER  == <<"g">>            \* "gender"
C_ONE   == <<"c", "1">>       \* "Contract_One year"
C_TWO   == <<"c", "2">>       \* "Contract_Two year"
MONTHLY == <<"m">>            \* "MonthlyCharges"

TrainCols == <<GENDER, C_ONE, C_TWO, MONTHLY>>

\* the column order of another training run
OtherCols == <<MONTHLY, C_TWO, C_ONE, GENDER>>

BinaryMapValue ==
    [f \in {"gender"} |-> [v \in {"Female", "Male"} |-> IF v = "Male" THEN 1 ELSE 0]]

ContractVocabulary == <<"Month-to-month", "One year", "Two year">>

\* feature_columns.txt contents an artifact directory may hold
BlankOnlyFile == <<" ", NL, NL>>
FileOptions ==
    { NoFile, BlankOnlyFile, PersistCols(TrainCols, FALSE), PersistCols(OtherCols, TRUE) }

\* ---------------------------------------------------------------- records
Str(x) == [t |-> "str", s |-> x, n |-> 0]
Num(x) == [t |-> "num", s |-> "", n |-> x]
Absent == [t |-> "absent", s |-> "", n |-> 0]

RawRecord(g, c, m) == [gender |-> g, Contract |-> c, MonthlyCharges |-> m]

RecEmpty   == RawRecord(Absent, Absent, Absent)
RecExample == RawRecord(Str("Female"), Str("Two year"), Num(85))
RecMale    == RawRecord(Str("Male"), Str("Month-to-month"), Num(85))
RecUnknown == RawRecord(Str("Other"), Str("Weekly"), Num(20))
RecBadNum  == RawRecord(Str("Female"), Str("One year"), Str("abc"))

RecordSet == {RecEmpty, RecExample, RecMale, RecUnknown, RecBadNum}

\* ---------------------------------------------------------------- codec
\* binary field: fixed mapping, unknown or missing value falls back to 0
EncodeBinary(bmap, field, v) ==
    IF v.t = "str" /\ v.s \in DOMAIN bmap[field] THEN bmap[field][v.s] ELSE 0

\* drop-first one-hot: indicator of one non-reference category
EncodeOneHot(v, category) ==
    IF v.t = "str" /\ v.s = category THEN 1 ELSE 0

CanCoerce(v) == v.t = "num"

\* the transformed row, by column name
TransformRow(r, bmap) ==
    [c \in {GENDER, C_ONE, C_TWO, MONTHLY} |->
        CASE c = GENDER  -> EncodeBinary(bmap, "gender", r.gender)
          [] c = C_ONE   -> EncodeOneHot(r.Contract, ContractVocabulary[2])
          [] c = C_TWO   -> EncodeOneHot(r.Contract, ContractVocabulary[3])
          [] c = MONTHLY -> r.MonthlyCharges.n]

\* variant: the row is handed on in the order the transformation produced it
encode_roworder(r, cols, bmap) ==
    IF ~CanCoerce(r.MonthlyCharges)
    THEN [ok |-> FALSE, vec |-> <<>>, err |-> "EncodingError"]
    ELSE LET row == TransformRow(r, bmap)
         IN  [ok  |-> TRUE,
              vec |-> <<row[GENDER], row[C_ONE], row[C_TWO], row[MONTHLY]>>,
              err |-> ""]

\* encode(record, schema): values ordered per the loaded column order
encode(r, cols, bmap) ==
    IF ~CanCoerce(r.MonthlyCharges)
    THEN [ok |-> FALSE, vec |-> <<>>, err |-> "EncodingError"]
    ELSE LET row == TransformRow(r, bmap)
         IN  [ok  |-> TRUE,
              vec |-> [i \in 1..Len(cols) |->
                          IF cols[i] \in DOMAIN row THEN row[cols[i]] ELSE 0],
              err |-> ""]

Ret(v)   == [tag |-> "ret", val |-> v]
Raise(e) == [tag |-> "raise", val |-> e]

\* the classifier sees positions only
ModelPredict(m, vec) ==
    IF Len(vec) # Len(TrainCols) THEN Raise("feature shape mismatch")
    ELSE IF vec[4] >= 50 /\ vec[3] = 0 THEN Ret("Likely to churn")
    ELSE Ret("Not likely to churn")

\* predict(input_dict), start to end
predict(r, cols, bmap, m) ==
    LET e == encode(r, cols, bmap)
    IN  IF e.ok THEN ModelPredict(m, e.vec) ELSE Raise(e.err)

\* ---------------------------------------------------------------- handlers
Response(shape, v) == [shape |-> shape, val |-> v]
NoOut == Response("none", "")

\* variant: no except clause, the exception leaves the handler
get_prediction_noexcept(o) ==
    IF o.tag = "ret" THEN Response("prediction", o.val)
    ELSE Response("raised", o.val)

\* main.py get_prediction: try / except Exception around predict
get_prediction(o) ==
    IF o.tag = "ret" THEN Response("prediction", o.val)
    ELSE Response("error", o.val)

\* variant: the form handler catches and returns the message
gradio_interface_caught(o) ==
    IF o.tag = "ret" THEN Response("text", o.val)
    ELSE Response("error", o.val)

\* main.py gradio_interface: str(predict(data)), no handler around it
gradio_interface(o) ==
    IF o.tag = "ret" THEN Response("text", o.val)
    ELSE Response("raised", o.val)

\* ---------------------------------------------------------------- state
VARIABLES
    models,        \* artifact directory -> "none" | "ok" | "corrupt"
    mtime,         \* artifact directory -> modification time (0: no directory)
    files,         \* artifact directory -> text of feature_columns.txt, or NoFile
    pc,            \* position of the serving process in module initialisation
    MODEL_DIR,     \* inference.py global
    model,         \* inference.py global: directory the pyfunc model came from
    latest_model,  \* inference.py global of the fallback branch
    feature_file,  \* inference.py global: directory part of the path opened
    FEATURE_COLS,  \* inference.py global
    BINARY_MAP,    \* inference.py global
    err,           \* the exception module initialisation ended with
    attempts,      \* directories handed to mlflow.pyfunc.load_model, in order
    req,           \* request slot -> handler state
    trainPc,       \* position of train_model
    schema         \* column order fitted at training time

vars == <<models, mtime, files, pc, MODEL_DIR, model, latest_model, feature_file,
          FEATURE_COLS, BINARY_MAP, err, attempts, req, trainPc, schema>>

fsVars     == <<models, mtime, files>>
globalVars == <<MODEL_DIR, model, FEATURE_COLS, BINARY_MAP>>
startVars  == <<pc, MODEL_DIR, model, latest_model, feature_file, FEATURE_COLS,
                BINARY_MAP, err, attempts>>
trainVars  == <<trainPc, schema>>

Slots == 1..MaxRequests

IdleSlot == [st |-> "idle", kind |-> "none", rec |-> RecEmpty, vec |-> <<>>, out |-> NoOut]

NoErr == [stage |-> "", primary |-> "", fallback |-> ""]

InitProcess ==
    /\ pc = "init"
    /\ MODEL_DIR = APP
    /\ model = NoModel
    /\ latest_model = NoPath
    /\ feature_file = NoPath
    /\ FEATURE_COLS = <<>>
    /\ BINARY_MAP = BinaryMapValue
    /\ err = NoErr
    /\ attempts = <<>>
    /\ req = [i \in Slots |-> IdleSlot]

\* the file system the serving process and the training driver start on
Init ==
    /\ \E a \in {"ok", "none"}, r \in {"none", "ok", "corrupt"}, t \in 1..MaxMtime,
          fa \in FileOptions, fr \in FileOptions :
          /\ r = "none" => (t = 1 /\ fr = NoFile)
          /\ models = [d \in Dirs |-> IF d = APP THEN a ELSE IF d = R1 THEN r ELSE "none"]
          /\ mtime  = [d \in Dirs |-> IF d = R1 /\ r # "none" THEN t
                                      ELSE IF d = APP THEN 1 ELSE 0]
          /\ files  = [d \in Dirs |-> IF d = APP THEN fa ELSE IF d = R1 THEN fr ELSE NoFile]
    /\ InitProcess
    /\ trainPc = "idle"
    /\ schema = <<>>

\* ---------------------------------------------------------------- startup
Crash(stage, e1, e2) ==
    /\ pc' = "crashed"
    /\ err' = [stage |-> stage, primary |-> e1, fallback |-> e2]

\* inference.py 38-44: model = mlflow.pyfunc.load_model(MODEL_DIR)
LoadPrimary ==
    /\ pc = "init"
    /\ trainPc \in {"idle", "done"}
    /\ attempts' = Append(attempts, MODEL_DIR)
    /\ IF models[MODEL_DIR] = "ok"
       THEN /\ model' = MODEL_DIR
            /\ pc' = "features"
            /\ err' = err
       ELSE /\ model' = model
            /\ pc' = "fallback"
            /\ err' = [err EXCEPT !.primary = "load_model failed"]
    /\ UNCHANGED <<fsVars, MODEL_DIR, latest_model, feature_file, FEATURE_COLS,
                   BINARY_MAP, req, trainVars>>

\* variant: min instead of max
LatestModels_min(paths, mt) == {d \in paths : \A o \in paths : mt[d] <= mt[o]}

\* max(local_model_paths, key=os.path.getmtime); glob order decides ties
LatestModels(paths, mt) == {d \in paths : \A o \in paths : mt[o] <= mt[d]}

\* inference.py 46-51, 55-58: glob the local runs, pick the latest
FallbackSelect ==
    /\ pc = "fallback"
    /\ LET local_model_paths == {d \in RunDirs : models[d] # "none"}
       IN  IF local_model_paths = {}
           THEN /\ Crash("model", err.primary, "No model found in local mlruns")
                /\ latest_model' = latest_model
           ELSE /\ \E d \in LatestModels(local_model_paths, mtime) : latest_model' = d
                /\ pc' = "fb_load"
                /\ err' = err
    /\ UNCHANGED <<fsVars, MODEL_DIR, model, feature_file, FEATURE_COLS, BINARY_MAP,
                   attempts, req, trainVars>>

\* inference.py 52, 57-58: model = mlflow.pyfunc.load_model(latest_model)
FallbackLoad ==
    /\ pc = "fb_load"
    /\ attempts' = Append(attempts, latest_model)
    /\ IF models[latest_model] = "ok"
       THEN /\ model' = latest_model
            /\ pc' = "fb_assign"
            /\ err' = err
       ELSE /\ model' = model
            /\ Crash("model", err.primary, "load_model failed")
    /\ UNCHANGED <<fsVars, MODEL_DIR, latest_model, feature_file, FEATURE_COLS,
                   BINARY_MAP, req, trainVars>>

\* variant: the fallback forgets to reassign MODEL_DIR
FallbackAssign_skip ==
    /\ pc = "fb_assign"
    /\ pc' = "features"
    /\ UNCHANGED <<fsVars, MODEL_DIR, model, latest_model, feature_file, FEATURE_COLS,
                   BINARY_MAP, err, attempts, req, trainVars>>

\* inference.py 53-54: MODEL_DIR = latest_model
FallbackAssign ==
    /\ pc = "fb_assign"
    /\ MODEL_DIR' = latest_model
    /\ pc' = "features"
    /\ UNCHANGED <<fsVars, model, latest_model, feature_file, FEATURE_COLS, BINARY_MAP,
                   err, attempts, req, trainVars>>

\* variant: a failed read is swallowed and the process carries on without columns
LoadFeatures_swallow ==
    /\ pc = "features"
    /\ feature_file' = MODEL_DIR
    /\ FEATURE_COLS' = IF files[MODEL_DIR] = NoFile THEN <<>>
                       ELSE ReadFeatureCols(files[MODEL_DIR])
    /\ pc' = "loaded"
    /\ UNCHANGED <<fsVars, MODEL_DIR, model, latest_model, BINARY_MAP, err, attempts,
                   req, trainVars>>

\* inference.py 64-70: read feature_columns.txt next to the model
LoadFeatures ==
    /\ pc = "features"
    /\ feature_file' = MODEL_DIR
    /\ IF files[MODEL_DIR] = NoFile
       THEN /\ Crash("features", "", "")
            /\ FEATURE_COLS' = FEATURE_COLS
       ELSE /\ FEATURE_COLS' = ReadFeatureCols(files[MODEL_DIR])
            /\ pc' = "loaded"
            /\ err' = err
    /\ UNCHANGED <<fsVars, MODEL_DIR, model, latest_model, BINARY_MAP, attempts, req,
                   trainVars>>

\* main.py 17-125: the import returned, the application is built and mounted
MountApp ==
    /\ pc = "loaded"
    /\ pc' = "serving"
    /\ UNCHANGED <<fsVars, MODEL_DIR, model, latest_model, feature_file, FEATURE_COLS,
                   BINARY_MAP, err, attempts, req, trainVars>>

\* ---------------------------------------------------------------- requests
Finish(slot, o) ==
    [slot EXCEPT !.st = "done",
                 !.out = IF slot.kind = "predict" THEN get_prediction(o)
                         ELSE gradio_interface(o)]

\* main.py 28-33: health check
root(i) ==
    /\ pc = "serving"
    /\ req[i].st = "idle"
    /\ req' = [req EXCEPT ![i] = [IdleSlot EXCEPT !.st = "done", !.kind = "health",
                                                  !.out = Response("status", "ok")]]
    /\ UNCHANGED <<fsVars, startVars, trainVars>>

\* variant: the handler consumes the shared column list in place
get_prediction_call_pop(i, d) ==
    /\ pc = "serving"
    /\ req[i].st = "idle"
    /\ req' = [req EXCEPT ![i] = [IdleSlot EXCEPT !.st = "called", !.kind = "predict",
                                                  !.rec = d]]
    /\ FEATURE_COLS' = IF FEATURE_COLS = <<>> THEN <<>> ELSE Tail(FEATURE_COLS)
    /\ UNCHANGED <<fsVars, pc, MODEL_DIR, model, latest_model, feature_file,
                   BINARY_MAP, err, attempts, trainVars>>

\* main.py 48-65: POST /predict enters predict(data.dict())
get_prediction_call(i, d) ==
    /\ pc = "serving"
    /\ req[i].st = "idle"
    /\ req' = [req EXCEPT ![i] = [IdleSlot EXCEPT !.st = "called", !.kind = "predict",
                                                  !.rec = d]]
    /\ UNCHANGED <<fsVars, startVars, trainVars>>

\* main.py 73-92: the Gradio form enters predict(data)
gradio_interface_call(i, d) ==
    /\ pc = "serving"
    /\ req[i].st = "idle"
    /\ req' = [req EXCEPT ![i] = [IdleSlot EXCEPT !.st = "called", !.kind = "gradio",
                                                  !.rec = d]]
    /\ UNCHANGED <<fsVars, startVars, trainVars>>

\* predict, first half: the record is encoded against FEATURE_COLS
PredictEncode(i) ==
    /\ req[i].st = "called"
    /\ LET e == encode(req[i].rec, FEATURE_COLS, BINARY_MAP)
       IN  req' = [req EXCEPT ![i] =
                      IF e.ok THEN [@ EXCEPT !.st = "encoded", !.vec = e.vec]
                      ELSE Finish(@, Raise(e.err))]
    /\ UNCHANGED <<fsVars, startVars, trainVars>>

\* predict, second half: the vector goes to the model, the label comes back
PredictModel(i) ==
    /\ req[i].st = "encoded"
    /\ req' = [req EXCEPT ![i] = Finish(@, ModelPredict(model, @.vec))]
    /\ UNCHANGED <<fsVars, startVars, trainVars>>

\* the response leaves, the worker is free again
Reply(i) ==
    /\ req[i].st = "done"
    /\ req' = [req EXCEPT ![i] = IdleSlot]
    /\ UNCHANGED <<fsVars, startVars, trainVars>>

\* ---------------------------------------------------------------- training
\* train.py 17: fit_schema on the training set, encode rows, build the classifier
TrainPrepare ==
    /\ pc = "init"
    /\ trainPc = "idle"
    /\ trainPc' = "prepared"
    /\ schema' = TrainCols
    /\ UNCHANGED <<fsVars, startVars, req>>

\* train.py 20-25: model.fit, predictions and metrics on the held-out part
TrainFit ==
    /\ pc = "init"
    /\ trainPc = "prepared"
    /\ trainPc' = "fitted"
    /\ UNCHANGED <<fsVars, startVars, req, schema>>

\* train.py 28-31: params, metrics and the model are logged to the run
TrainLogModel ==
    /\ pc = "init"
    /\ trainPc = "fitted"
    /\ trainPc' = "logged"
    /\ models' = [models EXCEPT ![R2] = "ok"]
    /\ mtime' = [mtime EXCEPT ![R2] = MaxMtime]
    /\ UNCHANGED <<files, startVars, req, schema>>

\* train.py 34-37: the dataset is logged, the run ends
TrainLogInput ==
    /\ pc = "init"
    /\ trainPc = "logged"
    /\ trainPc' = "done"
    /\ UNCHANGED <<fsVars, startVars, req, schema>>

\* ---------------------------------------------------------------- system
Next ==
    \/ LoadPrimary
    \/ FallbackSelect
    \/ FallbackLoad
    \/ FallbackAssign
    \/ LoadFeatures
    \/ MountApp
    \/ \E i \in Slots : root(i)
    \/ \E i \in Slots, d \in RecordSet : get_prediction_call(i, d)
    \/ \E i \in Slots, d \in RecordSet : gradio_interface_call(i, d)
    \/ \E i \in Slots : PredictEncode(i)
    \/ \E i \in Slots : PredictModel(i)
    \/ \E i \in Slots : Reply(i)
    \/ TrainPrepare
    \/ TrainFit
    \/ TrainLogModel
    \/ TrainLogInput

Spec == Init /\ [][Next]_vars

\* ---------------------------------------------------------------- codec runs
CodecChars == {"a", " "}

RECURSIVE SeqsUpTo(_, _)
SeqsUpTo(S, n) ==
    IF n = 0 THEN {<<>>}
    ELSE LET P == SeqsUpTo(S, n - 1)
         IN  P \cup {Append(q, x) : q \in P, x \in S}

CodecNames == SeqsUpTo(CodecChars, MaxNameLen) \ {<<>>}
CodecSchemas == SeqsUpTo(CodecNames, MaxCols)

\* a training run's column order, about to be persisted next to the model
InitCodec ==
    /\ models = [d \in Dirs |-> IF d = APP THEN "ok" ELSE "none"]
    /\ mtime  = [d \in Dirs |-> IF d = APP THEN 1 ELSE 0]
    /\ files  = [d \in Dirs |-> NoFile]
    /\ InitProcess
    /\ trainPc = "done"
    /\ schema \in CodecSchemas

\* persist(schema, target): the column order, one name per line
persist(blankSep) ==
    /\ pc = "init"
    /\ files[APP] = NoFile
    /\ files' = [files EXCEPT ![APP] = PersistCols(schema, blankSep)]
    /\ UNCHANGED <<models, mtime, startVars, req, trainVars>>

NextCodec ==
    \/ \E b \in BOOLEAN : persist(b)
    \/ LoadPrimary
    \/ LoadFeatures

SpecCodec == InitCodec /\ [][NextCodec]_vars

\* ---------------------------------------------------------------- properties
Labels == {"Likely to churn", "Not likely to churn"}

ModelLoadOk   == model # NoModel /\ models[model] = "ok"
FeatureLoadOk == feature_file # NoPath /\ files[feature_file] # NoFile
Started       == pc \in {"loaded", "serving"}
Candidates    == {d \in RunDirs : models[d] # "none"}

\* C1: the startup load of FEATURE_COLS never completes with an empty list: a
\* column-order file without a non-blank line (or a missing one) ends startup
\* in the error state.
C1_EmptySchemaFails ==
    Started => FEATURE_COLS # <<>>

\* C2: a request is handled only after the model load and the feature-column
\* load both succeeded; a startup that raised serves nothing, and a process
\* that is up has a loaded model, loaded columns and no startup error.
C2_FailFast ==
    /\ \A i \in Slots : req[i].st # "idle" =>
          pc = "serving" /\ ModelLoadOk /\ FeatureLoadOk
    /\ Started => ModelLoadOk /\ FeatureLoadOk /\ err.stage = ""
    /\ pc = "crashed" => err.stage # "" /\ \A i \in Slots : req[i] = IdleSlot

C2_Witness ==
    \E i \in Slots : req[i].st = "done" /\ req[i].kind = "predict"
                     /\ req[i].out.shape = "prediction"

\* C3: after a successful startup the column file was read from the directory
\* the model in use was loaded from, on the primary and on the fallback path.
C3_SameArtifact ==
    Started => feature_file = model /\ model = MODEL_DIR

C3_Witness ==
    pc = "serving" /\ model \in RunDirs /\ files[APP] # NoFile

ExpectedColumn(r, name) ==
    CASE name = GENDER  -> IF r.gender = Str("Male") THEN 1 ELSE 0
      [] name = C_ONE   -> IF r.Contract = Str("One year") THEN 1 ELSE 0
      [] name = C_TWO   -> IF r.Contract = Str("Two year") THEN 1 ELSE 0
      [] name = MONTHLY -> r.MonthlyCharges.n
      [] OTHER          -> 0

C6_TrainingPersistsSchema ==
    /\ trainPc = "done" => files[R2] # NoFile
    /\ (trainPc = "done" /\ MODEL_DIR = R2) => pc # "crashed"

\* C7: persisting a column list and loading it back yields the same list:
\* same names, same length, same order.
C7_RoundTrip ==
    (pc = "loaded" /\ files[APP] # NoFile) => FEATURE_COLS = schema

\* what predict yields for the record of slot i when it runs alone
Alone(i) == predict(req[i].rec, FEATURE_COLS, BINARY_MAP, model)

ResultAsAlone ==
    \A i \in Slots : (req[i].st = "done" /\ req[i].kind \in {"predict", "gradio"}) =>
        /\ req[i].out.val = Alone(i).val
        /\ (req[i].out.shape \in {"prediction", "text"}) <=> (Alone(i).tag = "ret")

\* C8: once serving, no request changes model, MODEL_DIR, FEATURE_COLS or
\* BINARY_MAP, and each request's result is what predict gives for its record
\* when run alone, whatever the interleaving.
C8_ReadOnlyShared ==
    /\ [](ResultAsAlone)
    /\ [][pc = "serving" => UNCHANGED globalVars]_vars

C8_Witness ==
    \E i, j \in Slots :
        /\ i # j
        /\ req[i].st = "encoded"
        /\ req[j].st = "done" /\ req[j].kind = "gradio"

\* C9: the load from /app/model comes first; the fallback is tried only when
\* it raised; the fallback loads a candidate of greatest modification time and
\* reassigns MODEL_DIR only after that load succeeded; without a candidate, or
\* when the fallback load raises, startup ends with an error carrying both
\* failures; MODEL_DIR stays when the primary load succeeds.
C9_LoadOrder ==
    /\ attempts # <<>> => attempts[1] = APP
    /\ Len(attempts) <= 2
    /\ Len(attempts) = 2 =>
          /\ models[APP] # "ok"
          /\ attempts[2] \in Candidates
          /\ \A d \in Candidates : mtime[d] <= mtime[attempts[2]]
    /\ pc \in {"fallback", "fb_load", "fb_assign"} =>
          models[APP] # "ok" /\ err.primary # "" /\ MODEL_DIR = APP
    /\ MODEL_DIR # APP =>
          /\ model = MODEL_DIR /\ models[model] = "ok"
          /\ attempts = <<APP, MODEL_DIR>>
    /\ models[APP] = "ok" => MODEL_DIR = APP /\ Len(attempts) <= 1
    /\ (pc = "crashed" /\ err.stage = "model") =>
          /\ err.primary # "" /\ err.fallback # ""
          /\ MODEL_DIR = APP
          /\ \/ Candidates = {}
             \/ Len(attempts) = 2 /\ models[attempts[2]] = "corrupt"
    /\ pc \in {"features", "loaded", "serving"} => ModelLoadOk

C9_Witness ==
    /\ pc = "features"
    /\ MODEL_DIR = R2
    /\ model = R2
    /\ models[R1] = "ok"
    /\ mtime[R1] < mtime[R2]

\* C10 (as stated): both front ends agree with predict, and when predict
\* raises both report an error result instead of propagating the exception.
C10_BothReportError ==
    \A i \in Slots : req[i].st = "done" =>
        /\ req[i].kind = "predict" =>
              IF Alone(i).tag = "ret" THEN req[i].out = Response("prediction", Alone(i).val)
              ELSE req[i].out.shape = "error"
        /\ req[i].kind = "gradio" =>
              IF Alone(i).tag = "ret" THEN req[i].out = Response("text", Alone(i).val)
              ELSE req[i].out.shape = "error"

\* C10 (amended): both front ends agree with predict when it returns; when it
\* raises, get_prediction returns {"error": message} and gradio_interface lets
\* the exception propagate to its caller.
C10_FrontEndsConsistent ==
    \A i \in Slots : req[i].st = "done" =>
        /\ req[i].kind = "predict" =>
              IF Alone(i).tag = "ret" THEN req[i].out = Response("prediction", Alone(i).val)
              ELSE req[i].out = Response("error", Alone(i).val)
        /\ req[i].kind = "gradio" =>
              IF Alone(i).tag = "ret" THEN req[i].out = Response("text", Alone(i).val)
              ELSE req[i].out = Response("raised", Alone(i).val)

C10_Witness ==
    \E i, j \in Slots :
        /\ req[i].st = "done" /\ req[i].kind = "gradio" /\ req[i].out.shape = "raised"
        /\ req[j].st = "done" /\ req[j].kind = "predict" /\ req[j].out.shape = "error"
        /\ req[i].rec = req[j].rec

====
